---- MODULE Spec2Model ----
(***************************************************************************)
(* A model of the path tracer in src/app/src (pbrt.rs, main.rs).           *)
(*                                                                         *)
(* Numbers.  The program computes in f32.  The model computes exactly, on  *)
(* inputs for which every intermediate value is a rational with a small    *)
(* denominator:                                                            *)
(*   - coordinates, radii and colours are integers;                        *)
(*   - a ray direction is a unit vector, kept as its three numerators over *)
(*     DirDen (so <<0,0,5>> is +z and <<3,4,0>> is (0.6, 0.8, 0));         *)
(*   - a ray parameter t is kept as the integer 60*t (TDen = 60);          *)
(*   - a square root is taken only of perfect squares (Exact... below      *)
(*     filters the inputs);                                                *)
(*   - 1.0/0.0 and 0.0*inf follow IEEE: the Ext values below.              *)
(***************************************************************************)
EXTENDS Integers, Sequences, FiniteSets, TLC

VARIABLES
    \* ray/primitive intersection scenario
    hpc, scene, ray, window, primRes, boxRes, listRes, bvh, bvhRes,
    \* Ray::trace scenario
    tpc, build, depth0, budget0, tdepth, tray, tstack, tresult, tlast,
    nscatter,
    \* RNG rejection sampling scenario
    rpc, rfn, rsample, rtries,
    \* scatter scenario
    spc, smat, sray, srec, sout,
    \* vector operations scenario
    vpc, vin, vout,
    \* construction scenario (bounding boxes and BVH::new)
    bpc, blist, bout,
    \* random_scene scenario
    cpc, ccell, matlib, hitables, clook,
    \* two renders side by side
    dparams, druns,
    \* bounding box test scenario
    xpc, xlist, xray, xwin, xres,
    \* thread pool scenario (executor.rs)
    main, size, threads, sender, receiver, channel, tasks, ran, unwinding

hitVars == <<hpc, scene, ray, window, primRes, boxRes, listRes, bvh, bvhRes>>

traceVars ==
    <<tpc, build, depth0, budget0, tdepth, tray, tstack, tresult, tlast, nscatter>>

rngVars == <<rpc, rfn, rsample, rtries>>

scatterVars == <<spc, smat, sray, srec, sout>>

vecVars == <<vpc, vin, vout>>

buildVars == <<bpc, blist, bout>>

sceneVars == <<cpc, ccell, matlib, hitables, clook>>

renderVars == <<dparams, druns>>

boxVars == <<xpc, xlist, xray, xwin, xres>>

poolVars == <<main, size, threads, sender, receiver, channel, tasks, ran, unwinding>>

vars ==
    <<hitVars, traceVars, rngVars, scatterVars, vecVars, buildVars, sceneVars,
      renderVars, boxVars, poolVars>>

\* what the steps of one scenario leave alone: the other scenarios' state
exceptHit ==
    <<traceVars, rngVars, scatterVars, vecVars, buildVars, sceneVars, renderVars, boxVars,
      poolVars>>

exceptTrace ==
    <<hitVars, rngVars, scatterVars, vecVars, buildVars, sceneVars, renderVars, boxVars,
      poolVars>>

exceptRng ==
    <<hitVars, traceVars, scatterVars, vecVars, buildVars, sceneVars, renderVars, boxVars,
      poolVars>>

exceptScatter ==
    <<hitVars, traceVars, rngVars, vecVars, buildVars, sceneVars, renderVars, boxVars,
      poolVars>>

exceptVec ==
    <<hitVars, traceVars, rngVars, scatterVars, buildVars, sceneVars, renderVars, boxVars,
      poolVars>>

exceptBuild ==
    <<hitVars, traceVars, rngVars, scatterVars, vecVars, sceneVars, renderVars, boxVars,
      poolVars>>

exceptScene ==
    <<hitVars, traceVars, rngVars, scatterVars, vecVars, buildVars, renderVars, boxVars,
      poolVars>>

exceptPool ==
    <<hitVars, traceVars, rngVars, scatterVars, vecVars, buildVars, sceneVars, renderVars,
      boxVars>>

exceptBox ==
    <<hitVars, traceVars, rngVars, scatterVars, vecVars, buildVars, sceneVars, renderVars,
      poolVars>>

exceptRender ==
    <<hitVars, traceVars, rngVars, scatterVars, vecVars, buildVars, sceneVars, boxVars,
      poolVars>>

(***************************************************************************)
(* Bounds of the model.                                                    *)
(***************************************************************************)
MaxPrims == 3

\* the largest bounce budget and starting depth of a traced ray
MaxDepth == 5

\* rng.rand() yields the values k / DrawDen, k in 0..DrawDen-1
DrawDen == 4

\* the most passes of a rejection loop that are followed
MaxTries == 3

\* vector components are the integers -MaxCoord..MaxCoord
MaxCoord == 4

\* the cells of the grid of random_scene that are followed (100 in the code)
MaxCells == 3

\* the most pixels of an image that are rendered
MaxPixels == 3
MaxWorkers == 2
MaxTasks == 2

(***************************************************************************)
(* Vectors (math/src/simd.rs Vec3; the fourth lane is always zero).        *)
(***************************************************************************)
DirDen == 5

TDen == 12 * DirDen

Zero3 == <<0, 0, 0>>

VAdd(a, b) == <<a[1] + b[1], a[2] + b[2], a[3] + b[3]>>

VSub(a, b) == <<a[1] - b[1], a[2] - b[2], a[3] - b[3]>>

VScale(s, a) == <<s * a[1], s * a[2], s * a[3]>>

Dot(a, b) == a[1] * b[1] + a[2] * b[2] + a[3] * b[3]

VMin(a, b) == [i \in 1..3 |-> IF a[i] < b[i] THEN a[i] ELSE b[i]]

VMax(a, b) == [i \in 1..3 |-> IF a[i] > b[i] THEN a[i] ELSE b[i]]

Abs(x) == IF x < 0 THEN -x ELSE x

IsSquare(n) == n >= 0 /\ \E s \in 0..n : s * s = n

\* f32::sqrt, on the perfect squares the inputs are restricted to
Sqrt(n) == CHOOSE s \in 0..n : s * s = n

(***************************************************************************)
(* IEEE values that are not finite: the results of x / 0.0 and of 0.0*inf. *)
(***************************************************************************)
Fin(v) == [k |-> "fin", v |-> v]

PInf == [k |-> "pinf", v |-> 0]

NInf == [k |-> "ninf", v |-> 0]

NaN == [k |-> "nan", v |-> 0]

\* a < b on f32: false as soon as one side is NaN
ExtLt(a, b) ==
    /\ a.k # "nan"
    /\ b.k # "nan"
    /\ \/ a.k = "ninf" /\ b.k # "ninf"
       \/ a.k # "pinf" /\ b.k = "pinf"
       \/ a.k = "fin" /\ b.k = "fin" /\ a.v < b.v

ExtGt(a, b) == ExtLt(b, a)

\* (num) * inv_dir with inv_dir = 1.0 / (d / DirDen), as 60*t
\* (d = 0 is +0.0: inv_dir = +inf, and 0.0 * inf = NaN)
SlabT(num, d) ==
    IF d = 0
    THEN IF num > 0 THEN PInf ELSE IF num < 0 THEN NInf ELSE NaN
    ELSE IF d > 0
         THEN Fin((num * TDen * DirDen) \div d)
         ELSE Fin(-((num * TDen * DirDen) \div (-d)))

(***************************************************************************)
(* AABB                                                                    *)
(***************************************************************************)
AABBNew(min, max) == [min |-> min, max |-> max]

Surround(b0, b1) == [min |-> VMin(b0.min, b1.min), max |-> VMax(b0.max, b1.max)]

\* a slip that leaves out the swap of t0 and t1 for a negative direction
AABBAxisNoSwap(box, r, a, t_min, t_max) ==
    LET d    == r.direction[a]
        t0   == SlabT(box.min[a] - r.origin[a], d)
        t1   == SlabT(box.max[a] - r.origin[a], d)
        tmin == IF ExtGt(t0, t_min) THEN t0 ELSE t_min
        tmax == IF ExtLt(t1, t_max) THEN t1 ELSE t_max
    IN  [tmin |-> tmin, tmax |-> tmax]

\* One pass of the loop body of AABB::hit for axis a: the values tmin and
\* tmax it computes from t_min and t_max.
AABBAxis(box, r, a, t_min, t_max) ==
    LET d    == r.direction[a]
        ta   == SlabT(box.min[a] - r.origin[a], d)
        tb   == SlabT(box.max[a] - r.origin[a], d)
        t0   == IF d < 0 THEN tb ELSE ta
        t1   == IF d < 0 THEN ta ELSE tb
        tmin == IF ExtGt(t0, t_min) THEN t0 ELSE t_min
        tmax == IF ExtLt(t1, t_max) THEN t1 ELSE t_max
    IN  [tmin |-> tmin, tmax |-> tmax]

\* The loop of AABB::hit from axis a on.  tmin and tmax are locals of the
\* loop body: t_min and t_max are never assigned, so every axis is tested
\* against the window the call was given.
RECURSIVE AABBLoop(_, _, _, _, _)
AABBLoop(box, r, a, t_min, t_max) ==
    IF a > 3 THEN TRUE
    ELSE LET ax == AABBAxis(box, r, a, t_min, t_max)
         IN  IF ExtGt(ax.tmin, ax.tmax) THEN FALSE
             ELSE AABBLoop(box, r, a + 1, t_min, t_max)

AABBHit(box, r, t_min, t_max) == AABBLoop(box, r, 1, Fin(t_min), Fin(t_max))

(***************************************************************************)
(* HitRecord and Ray (pbrt.rs).  rec.p is kept as PDen * p; rec.normal as  *)
(* a numerator vector over a denominator; u and v (atan2, asin of the      *)
(* normal) are kept as the normal they were computed from.                 *)
(***************************************************************************)
PDen == TDen * DirDen

NoNormal == [num |-> Zero3, den |-> 1]

HitRecordDefault ==
    [t |-> 0, p |-> Zero3, normal |-> NoNormal, material |-> 0, uv |-> NoNormal]

RayNew(origin, direction, time, max_depth) ==
    [origin |-> origin, direction |-> direction, time |-> time,
     max_depth |-> max_depth]

PointAtParam(r, t) == VAdd(VScale(PDen, r.origin), VScale(t, r.direction))

(***************************************************************************)
(* Sphere and MovingSphere (main.rs).  A Sphere is kept in the same record *)
(* shape as a MovingSphere, with both centers equal.                       *)
(***************************************************************************)
SphereNew(center, radius, material) ==
    [kind |-> "Sphere", center0 |-> center, center1 |-> center,
     t0 |-> 0, t1 |-> 1, radius |-> radius,
     radius_squared |-> radius * radius, material |-> material]

MovingSphereNew(center0, center1, t0, t1, radius, material) ==
    [kind |-> "MovingSphere", center0 |-> center0, center1 |-> center1,
     t0 |-> t0, t1 |-> t1, radius |-> radius,
     radius_squared |-> radius * radius, material |-> material]

\* MovingSphere::center, exact when (t1 - t0) divides (t - t0)*(c1 - c0)
Center(s, t) ==
    LET dc == VSub(s.center1, s.center0)
    IN  [i \in 1..3 |-> s.center0[i] + ((t - s.t0) * dc[i]) \div (s.t1 - s.t0)]

\* 25 * discriminat of the quadratic for center c (a = D.D, b = oc.D)
Discriminant(c, radius_squared, r) ==
    LET oc == VSub(r.origin, c)
        b5 == Dot(oc, r.direction)
    IN  b5 * b5 - Dot(r.direction, r.direction) * (Dot(oc, oc) - radius_squared)

\* (-b -/+ dsqrt) / a as 60 * temp; sign is -1 for the smaller root
Root(c, radius_squared, r, sign) ==
    LET oc == VSub(r.origin, c)
        b5 == Dot(oc, r.direction)
        ds == Sqrt(Discriminant(c, radius_squared, r))
    IN  (TDen * DirDen * (sign * ds - b5)) \div Dot(r.direction, r.direction)

\* a slip that accepts a root on the window's border
InWindowClosed(temp, t_min, t_max) == temp <= t_max /\ temp >= t_min

\* the bound test of both roots: temp < t_max && temp > t_min
InWindow(temp, t_min, t_max) == temp < t_max /\ temp > t_min

NormalAt(p, c, radius) ==
    [num |-> VSub(p, VScale(PDen, c)), den |-> PDen * radius]

SphereHit(s, r, t_min, t_max, rec) ==
    IF Discriminant(s.center0, s.radius_squared, r) > 0
    THEN LET temp   == Root(s.center0, s.radius_squared, r, -1)
             rec_p  == PointAtParam(r, temp)
             normal == NormalAt(rec_p, s.center0, s.radius)
             temp2  == Root(s.center0, s.radius_squared, r, 1)
         IN  IF InWindow(temp, t_min, t_max)
             THEN [hit |-> TRUE,
                   rec |-> [t |-> temp, p |-> rec_p, normal |-> normal,
                            material |-> s.material, uv |-> normal]]
             ELSE IF InWindow(temp2, t_min, t_max)
             THEN [hit |-> TRUE,
                   rec |-> [t |-> temp2, p |-> rec_p, normal |-> normal,
                            material |-> s.material, uv |-> normal]]
             ELSE [hit |-> FALSE, rec |-> rec]
    ELSE [hit |-> FALSE, rec |-> rec]

MovingSphereHit(s, r, t_min, t_max, rec) ==
    LET c == Center(s, r.time)
    IN  IF Discriminant(c, s.radius_squared, r) > 0
        THEN LET temp  == Root(c, s.radius_squared, r, -1)
                 temp2 == Root(c, s.radius_squared, r, 1)
             IN  IF InWindow(temp, t_min, t_max)
                 THEN [hit |-> TRUE,
                       rec |-> [rec EXCEPT !.t = temp,
                                    !.p = PointAtParam(r, temp),
                                    !.normal = NormalAt(PointAtParam(r, temp), c, s.radius),
                                    !.material = s.material]]
                 ELSE IF InWindow(temp2, t_min, t_max)
                 THEN [hit |-> TRUE,
                       rec |-> [rec EXCEPT !.t = temp2,
                                    !.p = PointAtParam(r, temp2),
                                    !.normal = NormalAt(PointAtParam(r, temp2), c, s.radius),
                                    !.material = s.material]]
                 ELSE [hit |-> FALSE, rec |-> rec]
        ELSE [hit |-> FALSE, rec |-> rec]

SphereBoundingBox(s) ==
    LET rv == <<s.radius, s.radius, s.radius>>
    IN  AABBNew(VSub(s.center0, rv), VAdd(s.center0, rv))

MovingSphereBoundingBox(s) ==
    LET rv == <<s.radius, s.radius, s.radius>>
    IN  Surround(AABBNew(VSub(s.center0, rv), VAdd(s.center0, rv)),
                 AABBNew(VSub(s.center1, rv), VAdd(s.center1, rv)))

\* Hitable::bounding_box for the three implementors; every one is Some(..)
BoundingBox(h) ==
    IF h.kind = "Sphere" THEN SphereBoundingBox(h)
    ELSE IF h.kind = "MovingSphere" THEN MovingSphereBoundingBox(h)
    ELSE h.bb

(***************************************************************************)
(* HitableList (pbrt.rs)                                                   *)
(***************************************************************************)
PrimHit(h, r, t_min, t_max, rec) ==
    IF h.kind = "Sphere" THEN SphereHit(h, r, t_min, t_max, rec)
    ELSE MovingSphereHit(h, r, t_min, t_max, rec)

\* the loop of HitableList::hit from element i on; st holds temp_rec,
\* hit_anything, closest_so_far and *rec
RECURSIVE HitableListLoop(_, _, _, _, _)
HitableListLoop(list, i, r, t_min, st) ==
    IF i > Len(list) THEN st
    ELSE LET e == PrimHit(list[i], r, t_min, st.closest_so_far, st.temp_rec)
         IN  IF e.hit
             THEN HitableListLoop(list, i + 1, r, t_min,
                      [temp_rec |-> e.rec, hit_anything |-> TRUE,
                       closest_so_far |-> e.rec.t, rec |-> e.rec])
             ELSE HitableListLoop(list, i + 1, r, t_min,
                      [st EXCEPT !.temp_rec = e.rec])

HitableListHit(list, r, t_min, t_max, rec) ==
    LET st == HitableListLoop(list, 1, r, t_min,
                  [temp_rec |-> HitRecordDefault, hit_anything |-> FALSE,
                   closest_so_far |-> t_max, rec |-> rec])
    IN  [hit |-> st.hit_anything, rec |-> st.rec]

RECURSIVE SurroundFold(_, _, _)
SurroundFold(list, i, a) ==
    IF i > Len(list) THEN a
    ELSE SurroundFold(list, i + 1, Surround(a, BoundingBox(list[i])))

\* HitableList::bounding_box on a non-empty list
HitableListBoundingBox(list) == SurroundFold(list, 2, BoundingBox(list[1]))

\* an off-by-one slip in partition: `i < index - 1`
PartitionShort(list, index) ==
    [left  |-> SubSeq(list, 1, index - 1),
     right |-> SubSeq(list, index, Len(list))]

Partition(list, index) ==
    [left  |-> SubSeq(list, 1, index),
     right |-> SubSeq(list, index + 1, Len(list))]

(***************************************************************************)
(* BVH (pbrt.rs)                                                           *)
(***************************************************************************)
\* box_x_compare / box_y_compare / box_z_compare for axis 0 / 1 / 2
BoxCompare(a, b, axis) ==
    IF BoundingBox(a).min[axis + 1] - BoundingBox(b).min[axis + 1] < 0
    THEN "Less" ELSE "Greater"

\* slice::sort_by: a stable sort that asks only whether compare(a, b) is
\* Less; for these lengths it is an insertion sort from the left.
RECURSIVE InsertTail(_, _, _)
InsertTail(sorted, x, axis) ==
    IF sorted = <<>> THEN <<x>>
    ELSE IF BoxCompare(x, sorted[Len(sorted)], axis) = "Less"
         THEN Append(InsertTail(SubSeq(sorted, 1, Len(sorted) - 1), x, axis),
                     sorted[Len(sorted)])
         ELSE Append(sorted, x)

RECURSIVE SortBy(_, _)
SortBy(list, axis) ==
    IF list = <<>> THEN <<>>
    ELSE InsertTail(SortBy(SubSeq(list, 1, Len(list) - 1), axis),
                    list[Len(list)], axis)

\* HitableList::bounding_box: None for the empty list, else Some(box)
ListBoundingBox(list) ==
    IF list = <<>>
    THEN [panic |-> FALSE, some |-> FALSE, box |-> AABBNew(Zero3, Zero3)]
    ELSE [panic |-> FALSE, some |-> TRUE, box |-> HitableListBoundingBox(list)]

\* the number of rng.rand() calls BVH::new makes on a list of n elements
RECURSIVE BVHDraws(_)
BVHDraws(n) ==
    IF n <= 2 THEN 1 ELSE 1 + BVHDraws(n \div 2) + BVHDraws(n - n \div 2)

NoBVH == [kind |-> "none"]

BVHNode(left, right) ==
    [kind |-> "BVH", bb |-> Surround(BoundingBox(left), BoundingBox(right)),
     left |-> left, right |-> right]

\* BVH::new; axes is the sequence of values (3.0 * rng.rand()) as u8 still
\* to be drawn.  Returns the node and the draws left over, or panic for the
\* unreachable!() of the empty list (every primitive supplies a box, so the
\* unreachable!() after the bounding boxes is never met).
RECURSIVE BVHNew(_, _)
BVHNew(hl, axes) ==
    LET list == SortBy(hl, IF axes[1] \in {0, 1} THEN axes[1] ELSE 2)
        rest == Tail(axes)
    IN  IF Len(list) = 0
        THEN [panic |-> TRUE, node |-> NoBVH, rest |-> rest]
        ELSE IF Len(list) = 1
        THEN [panic |-> FALSE, node |-> BVHNode(list[1], list[1]), rest |-> rest]
        ELSE IF Len(list) = 2
        THEN [panic |-> FALSE, node |-> BVHNode(list[1], list[2]), rest |-> rest]
        ELSE LET parts == Partition(list, Len(list) \div 2)
                 l     == BVHNew(parts.left, rest)
             IN  IF l.panic THEN l
                 ELSE LET rr == BVHNew(parts.right, l.rest)
                      IN  IF rr.panic THEN rr
                          ELSE [panic |-> FALSE, node |-> BVHNode(l.node, rr.node),
                                rest |-> rr.rest]

\* which of the two candidate records BVH::hit keeps
BVHPick(hit_left, left_rec, hit_right, right_rec, rec) ==
    IF hit_left /\ hit_right
    THEN IF left_rec.t < right_rec.t
         THEN [hit |-> TRUE, rec |-> left_rec]
         ELSE [hit |-> TRUE, rec |-> right_rec]
    ELSE IF hit_left THEN [hit |-> TRUE, rec |-> left_rec]
    ELSE IF hit_right THEN [hit |-> TRUE, rec |-> right_rec]
    ELSE [hit |-> FALSE, rec |-> rec]

RECURSIVE Hit(_, _, _, _, _)
Hit(h, r, t_min, t_max, rec) ==
    IF h.kind # "BVH" THEN PrimHit(h, r, t_min, t_max, rec)
    ELSE IF ~AABBHit(h.bb, r, t_min, t_max) THEN [hit |-> FALSE, rec |-> rec]
    ELSE LET l  == Hit(h.left, r, t_min, t_max, HitRecordDefault)
             rr == Hit(h.right, r, t_min, t_max, HitRecordDefault)
         IN  BVHPick(l.hit, l.rec, rr.hit, rr.rec, rec)

BVHHit(node, r, t_min, t_max, rec) == Hit(node, r, t_min, t_max, rec)

(***************************************************************************)
(* Textures and materials (main.rs).  A colour is one channel, an integer. *)
(***************************************************************************)
ConstTexture(c) == [kind |-> "Const", c |-> c, odd |-> <<>>, even |-> <<>>]

CheckerTexture(odd, even) ==
    [kind |-> "Checker", c |-> 0, odd |-> <<odd>>, even |-> <<even>>]

\* the sign of sin(10 * x) for x = px / PDen: sin(px / 30), with pi taken as
\* 355/113 (exact for the signs on the coordinates used)
SinSign(px) ==
    LET k == (113 * Abs(px)) \div (30 * 355)
        s == IF k % 2 = 0 THEN 1 ELSE -1
    IN  IF (113 * Abs(px)) % (30 * 355) = 0 THEN 0
        ELSE IF px > 0 THEN s ELSE -s

RECURSIVE TextureValue(_, _, _, _)
TextureValue(tex, u, v, p) ==
    IF tex.kind = "Const" THEN tex.c
    ELSE IF SinSign(p[1]) * SinSign(p[2]) * SinSign(p[3]) < 0
         THEN TextureValue(tex.odd[1], u, v, p)
         ELSE TextureValue(tex.even[1], u, v, p)

Lambertian(albedo) ==
    [kind |-> "Lambertian", albedo |-> albedo, fuzz |-> 0, ref_idx2 |-> 0]

\* fuzz is kept as FuzzDen * fuzz
FuzzDen == 2 * DrawDen

\* Metal { albedo, fuzz }: the struct literal
MetalLiteral(albedo, fuzz) ==
    [kind |-> "Metal", albedo |-> ConstTexture(albedo), fuzz |-> fuzz, ref_idx2 |-> 0]

\* Metal::new: fuzz: if fuzz < 1.0 { fuzz } else { 1.0 }
MetalNew(albedo, fuzz) ==
    MetalLiteral(albedo, IF fuzz < FuzzDen THEN fuzz ELSE FuzzDen)

\* Dielectric { ref_idx }, kept as 2 * ref_idx
Dielectric(ref_idx2) ==
    [kind |-> "Dielectric", albedo |-> ConstTexture(1), fuzz |-> 0, ref_idx2 |-> ref_idx2]

DiffuseLight(emit) ==
    [kind |-> "DiffuseLight", albedo |-> emit, fuzz |-> 0, ref_idx2 |-> 0]

\* Material::emitted: the default is Vec3::default(); DiffuseLight overrides
Emitted(mat, u, v, p) ==
    IF mat.kind = "DiffuseLight" THEN TextureValue(mat.albedo, u, v, p) ELSE 0

\* usize subtraction x - 1: panics on underflow with overflow checks (debug),
\* wraps without them (release).  usize::MAX does not fit the checker's
\* integers and is kept as UsizeMax.
UsizeMax == 2147483647

UsizeDec(x, bld) ==
    IF x >= 1 THEN [panic |-> FALSE, v |-> x - 1]
    ELSE IF bld = "debug" THEN [panic |-> TRUE, v |-> 0]
    ELSE [panic |-> FALSE, v |-> UsizeMax]

(***************************************************************************)
(* Ray::trace (pbrt.rs).  One step per call frame; the scene is any scene: *)
(* world.hit may miss or report any material of the library, and a scatter *)
(* returns any value that material's scatter can return.                   *)
(***************************************************************************)
\* the library random_scene builds has these four kinds of material
TraceLib ==
    << Lambertian(CheckerTexture(ConstTexture(0), ConstTexture(1))),
       MetalLiteral(1, 0),
       Dielectric(3),
       DiffuseLight(ConstTexture(4)) >>

\* what <material>::scatter can return
ScatterReturns(mat) ==
    IF mat.kind = "Lambertian" THEN {TRUE}
    ELSE IF mat.kind = "Metal" THEN {TRUE, FALSE}
    ELSE IF mat.kind = "Dielectric" THEN {TRUE}
    ELSE {FALSE}

\* a slip that samples the albedo at the origin instead of the hit point
ScatterAttenuationAtOrigin(mat, rec) ==
    IF mat.kind = "DiffuseLight" THEN 0 ELSE TextureValue(mat.albedo, 0, 0, Zero3)

\* the attenuation a scatter leaves (DiffuseLight leaves Vec3::default())
ScatterAttenuation(mat, rec) ==
    IF mat.kind = "DiffuseLight" THEN 0 ELSE TextureValue(mat.albedo, 0, 0, rec.p)

\* an off-by-one slip in the depth test
DepthLeftOrEqual(depth, max_depth) == depth <= max_depth

\* the test that lets trace call scatter: depth < self.max_depth
DepthLeft(depth, max_depth) == depth < max_depth

\* The hit branch of trace for material index m (0-based), when scatter, if
\* called, returns ret: what the frame does.
TraceOnHit(depth, r, rec, ret, bld) ==
    LET mat     == TraceLib[rec.material + 1]
        emitted == Emitted(mat, rec.uv, rec.uv, rec.p)
        called  == DepthLeft(depth, r.max_depth)
        dec     == UsizeDec(r.max_depth, bld)
    IN  [ emitted   |-> emitted,
          called    |-> called,
          panicked  |-> called /\ mat.kind # "DiffuseLight" /\ dec.panic,
          recursed  |-> called /\ ret /\ ~dec.panic,
          attenuation |-> IF called THEN ScatterAttenuation(mat, rec) ELSE 0,
          scattered |-> [r EXCEPT !.max_depth = dec.v] ]

NoFrame ==
    [valid |-> FALSE, hit |-> FALSE, depth |-> 0, max_depth |-> 0, material |-> 0,
     called |-> FALSE, ret |-> FALSE, recursed |-> FALSE, value |-> 0]

TraceRecs == { [HitRecordDefault EXCEPT !.material = m - 1] : m \in 1..Len(TraceLib) }

TraceInit ==
    /\ tpc = "call"
    /\ build \in {"debug", "release"}
    /\ depth0 \in 0..MaxDepth
    /\ budget0 \in 0..MaxDepth
    /\ tdepth = depth0
    /\ tray = RayNew(Zero3, <<0, 0, 5>>, 0, budget0)
    /\ tstack = <<>>
    /\ tresult = 0
    /\ tlast = NoFrame
    /\ nscatter = 0

\* world.hit(..) is false: return Vec3::default()
TraceMiss ==
    /\ tpc = "call"
    /\ tresult' = 0
    /\ tlast' = [NoFrame EXCEPT !.valid = TRUE, !.depth = tdepth,
                                !.max_depth = tray.max_depth]
    /\ tpc' = "ret"
    /\ UNCHANGED <<build, depth0, budget0, tdepth, tray, tstack, nscatter>>
    /\ UNCHANGED exceptTrace

\* world.hit(..) is true
TraceHit ==
    /\ tpc = "call"
    /\ \E rec \in TraceRecs :
       \E ret \in ScatterReturns(TraceLib[rec.material + 1]) :
          LET f == TraceOnHit(tdepth, tray, rec, ret, build)
          IN  /\ tlast' = [valid |-> TRUE, hit |-> TRUE, depth |-> tdepth,
                           max_depth |-> tray.max_depth,
                           material |-> rec.material, called |-> f.called,
                           ret |-> f.called /\ ret, recursed |-> f.recursed,
                           value |-> f.emitted]
              /\ IF f.panicked
                 THEN /\ tpc' = "panic"
                      /\ UNCHANGED <<tdepth, tray, tstack, tresult, nscatter>>
                 ELSE IF f.recursed
                 THEN /\ tpc' = "call"
                      /\ tstack' = Append(tstack, [emitted |-> f.emitted,
                                                   attenuation |-> f.attenuation])
                      /\ tdepth' = tdepth + 1
                      /\ tray' = f.scattered
                      /\ nscatter' = nscatter + 1
                      /\ UNCHANGED tresult
                 ELSE /\ tpc' = "ret"
                      /\ tresult' = f.emitted
                      /\ UNCHANGED <<tdepth, tray, tstack, nscatter>>
    /\ UNCHANGED <<build, depth0, budget0>>
    /\ UNCHANGED exceptTrace

\* a nested call returns: emitted + attenuation * (its value)
TraceReturn ==
    /\ tpc = "ret"
    /\ tstack # <<>>
    /\ LET top == tstack[Len(tstack)]
       IN  tresult' = top.emitted + top.attenuation * tresult
    /\ tstack' = SubSeq(tstack, 1, Len(tstack) - 1)
    /\ UNCHANGED <<tpc, build, depth0, budget0, tdepth, tray, tlast, nscatter>>
    /\ UNCHANGED exceptTrace

\* the outermost call returns
TraceDone ==
    /\ tpc = "ret"
    /\ tstack = <<>>
    /\ tpc' = "done"
    /\ UNCHANGED <<build, depth0, budget0, tdepth, tray, tstack, tresult, tlast, nscatter>>
    /\ UNCHANGED exceptTrace

(***************************************************************************)
(* The intersection scenario: a scene, a ray and a window are chosen, then *)
(* the hit tests are applied one after the other.                          *)
(***************************************************************************)
\* the geometry scenes are made of (material indices are given by position,
\* as random_scene gives them: matlib.lib.len() - 1 at each push)
Shapes ==
    { SphereNew(<<0, 0, 0>>, 1, 0),
      SphereNew(<<0, 0, 1>>, 2, 0),
      SphereNew(<<0, 4, 0>>, 1, 0),
      SphereNew(<<3, 4, 0>>, 1, 0),
      MovingSphereNew(<<0, 0, 0>>, <<0, 0, 2>>, 0, 2, 1, 0) }

\* lists of up to MaxPrims different shapes, in every order
Scenes ==
    UNION { { [i \in 1..n |-> [f[i] EXCEPT !.material = i - 1]] :
                f \in { g \in [1..n -> Shapes] :
                           \A i, j \in 1..n : i # j => g[i] # g[j] } } :
            n \in 1..MaxPrims }

\* rays as Ray::new leaves them: unit direction; time in halves
Rays ==
    { RayNew(<<0, 0, -5>>, <<0, 0, 5>>, 0, 1),
      RayNew(<<0, 0, -5>>, <<0, 0, 5>>, 1, 1),
      RayNew(<<0, 0, 5>>, <<0, 0, -5>>, 1, 1),
      RayNew(<<0, 0, 0>>, <<3, 4, 0>>, 0, 1) }

Windows ==
    { [t_min |-> 0, t_max |-> 600],
      [t_min |-> 240, t_max |-> 600],
      [t_min |-> 240, t_max |-> 360] }

\* every square root and division the hit tests take is exact
ExactInput(sc, r) ==
    \A i \in 1..Len(sc) :
        LET d == Discriminant(Center(sc[i], IF sc[i].kind = "Sphere" THEN sc[i].t0 ELSE r.time),
                              sc[i].radius_squared, r)
        IN  d <= 0 \/ IsSquare(d)

NoResult == [hit |-> FALSE, rec |-> HitRecordDefault]

HitInit ==
    /\ hpc = "start"
    /\ scene \in Scenes
    /\ ray \in Rays
    /\ window \in Windows
    /\ ExactInput(scene, ray)
    /\ primRes = NoResult
    /\ boxRes = FALSE
    /\ listRes = NoResult
    /\ bvh = NoBVH
    /\ bvhRes = NoResult

\* Sphere::hit / MovingSphere::hit on the first primitive
HitPrimitive ==
    /\ hpc = "start"
    /\ primRes' = PrimHit(scene[1], ray, window.t_min, window.t_max, HitRecordDefault)
    /\ hpc' = "prim"
    /\ UNCHANGED <<scene, ray, window, boxRes, listRes, bvh, bvhRes>>
    /\ UNCHANGED exceptHit

\* AABB::hit on the bounding box of the list
HitBox ==
    /\ hpc = "prim"
    /\ boxRes' = AABBHit(HitableListBoundingBox(scene), ray, window.t_min, window.t_max)
    /\ hpc' = "box"
    /\ UNCHANGED <<scene, ray, window, primRes, listRes, bvh, bvhRes>>
    /\ UNCHANGED exceptHit

\* HitableList::hit
HitList ==
    /\ hpc = "box"
    /\ listRes' = HitableListHit(scene, ray, window.t_min, window.t_max, HitRecordDefault)
    /\ hpc' = "list"
    /\ UNCHANGED <<scene, ray, window, primRes, boxRes, bvh, bvhRes>>
    /\ UNCHANGED exceptHit

\* BVH::new, for every sequence of axis draws
BuildBVH ==
    /\ hpc = "list"
    /\ \E axes \in [1..BVHDraws(Len(scene)) -> 0..2] :
           bvh' = BVHNew(scene, axes).node
    /\ hpc' = "built"
    /\ UNCHANGED <<scene, ray, window, primRes, boxRes, listRes, bvhRes>>
    /\ UNCHANGED exceptHit

\* BVH::hit
HitBVH ==
    /\ hpc = "built"
    /\ bvhRes' = BVHHit(bvh, ray, window.t_min, window.t_max, HitRecordDefault)
    /\ hpc' = "done"
    /\ UNCHANGED <<scene, ray, window, primRes, boxRes, listRes, bvh>>
    /\ UNCHANGED exceptHit

(***************************************************************************)
(* Claims about the intersection scenario                                  *)
(***************************************************************************)
\* C1: BVH.hit on a BVH built by BVH::new over a set of spheres and
\* HitableList.hit over the same set agree for every ray and window: both
\* miss, or both hit with the same nearest t and the same material index,
\* also when two primitives are hit at exactly the same t.
C1_BvhAgreesWithList ==
    hpc = "done" =>
        /\ bvhRes.hit = listRes.hit
        /\ bvhRes.hit =>
              /\ bvhRes.rec.t = listRes.rec.t
              /\ bvhRes.rec.material = listRes.rec.material

\* the running-interval slab test C5 describes: each axis narrows the
\* interval the next axis is tested against
RECURSIVE SlabsNarrowing(_, _, _, _, _)
SlabsNarrowing(box, r, a, t_min, t_max) ==
    IF a > 3 THEN TRUE
    ELSE LET ax == AABBAxis(box, r, a, t_min, t_max)
         IN  IF ExtGt(ax.tmin, ax.tmax) THEN FALSE
             ELSE SlabsNarrowing(box, r, a + 1, ax.tmin, ax.tmax)

\* C5: AABB.hit keeps one running interval, narrowed by every axis, and is
\* true exactly when the intersection over the three axes is non-empty; a
\* ray whose per-axis intervals each overlap the window but have no common
\* parameter is a miss.
C5_RunningInterval ==
    hpc \notin {"start", "prim"} =>
        boxRes = SlabsNarrowing(HitableListBoundingBox(scene), ray, 1,
                                Fin(window.t_min), Fin(window.t_max))

\* the ray's point at parameter t (as 60*t) lies on the primitive's surface
\* at the ray's time
OnSurface(h, r, t) ==
    LET c == IF h.kind = "Sphere" THEN h.center0 ELSE Center(h, r.time)
        v == VSub(PointAtParam(r, t), VScale(PDen, c))
    IN  Dot(v, v) = PDen * PDen * h.radius * h.radius

\* the parameters strictly inside the window at which the ray meets h
RootsInside(h, r, w) ==
    { t \in (w.t_min + 1)..(w.t_max - 1) : OnSurface(h, r, t) }

SetMin(S) == CHOOSE x \in S : \A y \in S : x <= y

\* C6: Sphere.hit and MovingSphere.hit miss when the discriminant is <= 0;
\* otherwise they report the smaller root if it is strictly inside
\* (t_min, t_max), else the larger root if that is, else they miss; a root
\* equal to t_min or t_max is never accepted.
C6_RootChoice ==
    hpc # "start" =>
        LET h     == scene[1]
            c     == IF h.kind = "Sphere" THEN h.center0 ELSE Center(h, ray.time)
            roots == RootsInside(h, ray, window)
        IN  IF Discriminant(c, h.radius_squared, ray) <= 0 \/ roots = {}
            THEN ~primRes.hit
            ELSE primRes.hit /\ primRes.rec.t = SetMin(roots)

\* C6 witness: the smaller root is exactly t_min, is refused, and the larger
\* root is reported
C6_Witness ==
    /\ hpc = "prim"
    /\ primRes.hit
    /\ OnSurface(scene[1], ray, window.t_min)
    /\ primRes.rec.t > window.t_min

(***************************************************************************)
(* Claims about Ray::trace                                                 *)
(***************************************************************************)
\* the frame recorded in tlast has just returned (nothing is unwound yet)
JustReturned ==
    tpc = "ret" /\ tlast.valid /\ Len(tstack) = tlast.depth - depth0

\* C2: trace called with depth == ray.max_depth on a ray that hits a surface
\* returns exactly that material's emitted value, calls no scatter and makes
\* no recursive call, whatever the material.
C2_ExhaustedReturnsEmission ==
    (tlast.valid /\ tlast.hit /\ tlast.depth = tlast.max_depth) =>
        /\ ~tlast.called
        /\ ~tlast.recursed
        /\ tpc # "call"
        /\ JustReturned =>
              tresult = Emitted(TraceLib[tlast.material + 1], 0, 0, Zero3)

\* C2 witness: a nested frame with depth == max_depth has hit a material that
\* always scatters and has returned
C2_Witness ==
    /\ JustReturned
    /\ tlast.hit
    /\ tlast.depth = tlast.max_depth
    /\ tlast.depth >= 1
    /\ TraceLib[tlast.material + 1].kind = "Lambertian"

\* C3: a camera ray with budget D traced from depth 0 never has more than D
\* scatter events in its chain of nested calls, and the trace returns.
C3_BoundedAndTerminates ==
    /\ [](depth0 = 0 => nscatter <= budget0)
    /\ <>(tpc = "done")

\* C3 witness: a trace from depth 0 has returned after two scatter events
C3_Witness ==
    tpc = "done" /\ depth0 = 0 /\ nscatter >= 2

\* C4: in a trace started at depth 0, a frame that hits and returns the
\* emission alone either had its scatter refuse (absorbed) or belongs to a
\* ray whose own budget max_depth is zero.
C4_StopsOnlyAtZeroBudget ==
    (depth0 = 0 /\ tlast.valid /\ tlast.hit /\ ~tlast.recursed /\ tpc # "panic") =>
        \/ tlast.called /\ ~tlast.ret
        \/ tlast.max_depth = 0

\* C19: ray.max_depth - 1 never underflows in a trace started at any depth
\* with any budget: no frame panics, scatter is called only on a ray with
\* max_depth >= 1, and the scattered ray carries the incoming budget minus one
\* (so no budget ever exceeds the first one).
C19_DecrementNeverUnderflows ==
    /\ [](tpc # "panic")
    /\ []((tlast.valid /\ tlast.called) => tlast.max_depth >= 1)
    /\ [](tray.max_depth <= budget0)
    /\ [][(tpc = "call" /\ tpc' = "call") =>
              tray'.max_depth = tray.max_depth - 1]_vars

\* C19 witness: without overflow checks, a ray with budget 1 has scattered and
\* the scattered ray carries budget 0
C19_Witness ==
    /\ build = "release"
    /\ tpc = "call"
    /\ nscatter >= 1
    /\ tlast.called
    /\ tlast.max_depth = 1
    /\ tray.max_depth = 0

(***************************************************************************)
(* RNG (pbrt.rs).  A vector of draws is kept as its numerators over        *)
(* DrawDen.                                                                *)
(***************************************************************************)
Draws == 0..(DrawDen - 1)

\* 2.0 * Vec3::new(a, b, c) - Vec3::new(1.0, 1.0, 1.0)
SphereCandidate(a, b, c) == <<2 * a - DrawDen, 2 * b - DrawDen, 2 * c - DrawDen>>

\* 2.0 * Vec3::new(a, b, 0.0) - Vec3::new(1.0, 1.0, 0.0)
DiskCandidate(a, b) == <<2 * a - DrawDen, 2 * b - DrawDen, 0>>

\* the test that ends the loop of random_in_unit_sphere: v.dot(v) >= 1.0
SphereReturns(v) == Dot(v, v) >= DrawDen * DrawDen

\* the test that ends the loop of random_in_unit_disk: v.dot(v) < 1.0
DiskReturns(v) == Dot(v, v) < DrawDen * DrawDen

\* every vector random_in_unit_sphere can return
UnitSphereSamples ==
    { v \in { SphereCandidate(a, b, c) : a \in Draws, b \in Draws, c \in Draws } :
        SphereReturns(v) }

RngInit ==
    /\ rpc = "loop"
    /\ rfn \in {"sphere", "disk"}
    /\ rsample = Zero3
    /\ rtries = 0

\* one pass of the loop of random_in_unit_sphere
SpherePass ==
    /\ rpc = "loop"
    /\ rfn = "sphere"
    /\ rtries < MaxTries
    /\ \E a \in Draws, b \in Draws, c \in Draws :
          /\ rsample' = SphereCandidate(a, b, c)
          /\ rpc' = IF SphereReturns(SphereCandidate(a, b, c)) THEN "returned" ELSE "loop"
    /\ rtries' = rtries + 1
    /\ UNCHANGED <<rfn>>
    /\ UNCHANGED exceptRng

\* one pass of the loop of random_in_unit_disk
DiskPass ==
    /\ rpc = "loop"
    /\ rfn = "disk"
    /\ rtries < MaxTries
    /\ \E a \in Draws, b \in Draws :
          /\ rsample' = DiskCandidate(a, b)
          /\ rpc' = IF DiskReturns(DiskCandidate(a, b)) THEN "returned" ELSE "loop"
    /\ rtries' = rtries + 1
    /\ UNCHANGED <<rfn>>
    /\ UNCHANGED exceptRng

\* C7: every vector random_in_unit_sphere returns has squared length < 1,
\* whatever the draws.
C7_SampleInUnitBall ==
    (rpc = "returned" /\ rfn = "sphere") => Dot(rsample, rsample) < DrawDen * DrawDen

(***************************************************************************)
(* Material::scatter (main.rs).  The unit vectors ray.direction and        *)
(* rec.normal are numerators over DirDen; a direction handed to Ray::new   *)
(* is kept before its normalisation, as numerators over one positive       *)
(* denominator (of which only the sign of a dot product is ever needed).   *)
(***************************************************************************)
\* rec.normal as numerators over DirDen
Normal5(n) == [i \in 1..3 |-> (DirDen * n.num[i]) \div n.den]

\* reflect(v, n) = v - 2.0 * v.dot(n) * n, as numerators over DirDen^3
Reflect(v, n) == VSub(VScale(DirDen * DirDen, v), VScale(2 * Dot(v, n), n))

\* refract(v, n, a/b) is Some: 1.0 - ni*ni*(1.0 - dt*dt) > 0.0 with
\* dt = v.dot(n) given as dt5 / DirDen
RefractSome(dt5, a, b) ==
    DirDen * DirDen * b * b - a * a * (DirDen * DirDen - dt5 * dt5) > 0

Pow5(x) == x * x * x * x * x

\* rand < schlick(cosine, ref_idx) for rand = k / DrawDen,
\* cosine = c10 / (2 * DirDen), ref_idx = r2 / 2
BelowSchlick(k, c10, r2) ==
    LET p  == (2 + r2) * (2 + r2)
        m  == (2 - r2) * (2 - r2)
        cd == 2 * DirDen
    IN  k * p * Pow5(cd) < DrawDen * (m * Pow5(cd) + (p - m) * Pow5(cd - c10))

\* a slip that gives reflect_prob 0.0 when there is no refracted ray
BelowReflectProbZero(k, some, c10, r2) ==
    IF some THEN BelowSchlick(k, c10, r2) ELSE k < 0

\* rng.rand() < reflect_prob, where reflect_prob is schlick(..) if the
\* refracted ray is Some and 1.0 otherwise
BelowReflectProb(k, some, c10, r2) ==
    IF some THEN BelowSchlick(k, c10, r2) ELSE k < DrawDen

\* scattered and attenuation as trace passes them in
NoOut ==
    [ret |-> FALSE, attenuation |-> 0, how |-> "none", raw |-> Zero3,
     max_depth |-> 0, some |-> FALSE, panic |-> FALSE]

LambertianScatter(mat, r, rec, sv, bld) ==
    LET dec == UsizeDec(r.max_depth, bld)
    IN  [ret |-> TRUE,
         attenuation |-> ScatterAttenuation(mat, rec),
         how |-> "diffuse",
         raw |-> VAdd(VScale(DrawDen, Normal5(rec.normal)), VScale(DirDen, sv)),
         max_depth |-> dec.v, some |-> FALSE, panic |-> dec.panic]

MetalScatter(mat, r, rec, sv, bld) ==
    LET dec == UsizeDec(r.max_depth, bld)
        n   == Normal5(rec.normal)
        raw == VAdd(VScale(FuzzDen * DrawDen, Reflect(r.direction, n)),
                    VScale(DirDen * DirDen * DirDen * mat.fuzz, sv))
    IN  [ret |-> Dot(raw, n) > 0,
         attenuation |-> ScatterAttenuation(mat, rec),
         how |-> "reflect", raw |-> raw,
         max_depth |-> dec.v, some |-> FALSE, panic |-> dec.panic]

\* the refracted direction takes a square root and is not kept: raw is
\* the zero vector when how = "refract"
DielectricScatter(mat, r, rec, k, bld) ==
    LET dec   == UsizeDec(r.max_depth, bld)
        n     == Normal5(rec.normal)
        dt5   == Dot(r.direction, n) \div DirDen
        front == dt5 > 0
        c10   == IF front THEN mat.ref_idx2 * dt5 ELSE -2 * dt5
        some  == IF front THEN RefractSome(-dt5, mat.ref_idx2, 2)
                          ELSE RefractSome(dt5, 2, mat.ref_idx2)
        refl  == BelowReflectProb(k, some, c10, mat.ref_idx2)
    IN  [ret |-> TRUE,
         attenuation |-> 1,
         how |-> IF refl THEN "reflect" ELSE "refract",
         raw |-> IF refl THEN Reflect(r.direction, n) ELSE Zero3,
         max_depth |-> dec.v, some |-> some,
         panic |-> (~refl /\ ~some) \/ dec.panic]

DiffuseLightScatter(mat, r, rec) == [NoOut EXCEPT !.ret = FALSE]

\* rays and the records their hits leave (t_min 0.001 and t_max f32::MAX of
\* trace select the same roots as the window below)
ScatterShots ==
    { <<SphereNew(<<0, 0, 0>>, 1, 0), RayNew(<<0, 0, -5>>, <<0, 0, 5>>, 0, 1)>>,
      <<SphereNew(<<3, 4, 2>>, 1, 0), RayNew(<<0, 0, 2>>, <<3, 4, 0>>, 0, 1)>>,
      <<SphereNew(<<0, 0, 0>>, 5, 0), RayNew(<<4, 0, -10>>, <<0, 0, 5>>, 0, 1)>>,
      <<SphereNew(<<0, 0, 0>>, 5, 0), RayNew(<<4, 0, 0>>, <<0, 0, 5>>, 0, 1)>>,
      <<MovingSphereNew(<<0, 0, 0>>, <<0, 0, 0>>, 0, 1, 5, 0),
        RayNew(<<0, 0, 0>>, <<3, 4, 0>>, 0, 1)>>,
      <<MovingSphereNew(<<0, 0, 0>>, <<0, 0, 0>>, 0, 1, 5, 0),
        RayNew(<<3, 0, 0>>, <<0, 0, 5>>, 0, 1)>>,
      <<MovingSphereNew(<<0, 0, 0>>, <<0, 0, 0>>, 0, 1, 5, 0),
        RayNew(<<4, 0, 0>>, <<0, 0, 5>>, 0, 1)>> }

ScatterWindowMax == 100 * TDen

ScatterCases ==
    { [ray |-> [sh[2] EXCEPT !.max_depth = d],
       rec |-> PrimHit(sh[1], sh[2], 0, ScatterWindowMax, HitRecordDefault).rec] :
        sh \in ScatterShots, d \in 1..2 }

Textures ==
    { ConstTexture(2),
      CheckerTexture(ConstTexture(0), ConstTexture(1)),
      CheckerTexture(CheckerTexture(ConstTexture(3), ConstTexture(4)), ConstTexture(5)) }

\* the fuzz values asked of Metal::new, from -1.0 to 2.0
FuzzRequests == { -FuzzDen, -1, 0, DrawDen, FuzzDen - 1, FuzzDen, FuzzDen + 1, 2 * FuzzDen }

NoMaterial == [kind |-> "none", albedo |-> ConstTexture(0), fuzz |-> 0, ref_idx2 |-> 0]

ScatterInit ==
    /\ spc = "new"
    /\ smat = NoMaterial
    /\ \E c \in ScatterCases :
          /\ sray = c.ray
          /\ srec = c.rec
    /\ sout = NoOut

NewLambertian ==
    /\ spc = "new"
    /\ \E tex \in Textures : smat' = Lambertian(tex)
    /\ spc' = "made"
    /\ UNCHANGED <<sray, srec, sout>>
    /\ UNCHANGED exceptScatter

NewMetal ==
    /\ spc = "new"
    /\ \E f \in FuzzRequests : smat' = MetalNew(1, f)
    /\ spc' = "made"
    /\ UNCHANGED <<sray, srec, sout>>
    /\ UNCHANGED exceptScatter

\* random_scene: Metal { albedo, fuzz: 0.5 * rng.rand() } and fuzz: 0.0
LiteralMetal ==
    /\ spc = "new"
    /\ \E k \in Draws : smat' = MetalLiteral(1, k)
    /\ spc' = "made"
    /\ UNCHANGED <<sray, srec, sout>>
    /\ UNCHANGED exceptScatter

NewDielectric ==
    /\ spc = "new"
    /\ smat' = Dielectric(3)
    /\ spc' = "made"
    /\ UNCHANGED <<sray, srec, sout>>
    /\ UNCHANGED exceptScatter

NewDiffuseLight ==
    /\ spc = "new"
    /\ smat' = DiffuseLight(ConstTexture(4))
    /\ spc' = "made"
    /\ UNCHANGED <<sray, srec, sout>>
    /\ UNCHANGED exceptScatter

ScatterLambertian ==
    /\ spc = "made"
    /\ smat.kind = "Lambertian"
    /\ \E sv \in UnitSphereSamples :
          sout' = LambertianScatter(smat, sray, srec, sv, build)
    /\ spc' = "scattered"
    /\ UNCHANGED <<smat, sray, srec>>
    /\ UNCHANGED exceptScatter

ScatterMetal ==
    /\ spc = "made"
    /\ smat.kind = "Metal"
    /\ \E sv \in UnitSphereSamples :
          sout' = MetalScatter(smat, sray, srec, sv, build)
    /\ spc' = "scattered"
    /\ UNCHANGED <<smat, sray, srec>>
    /\ UNCHANGED exceptScatter

ScatterDielectric ==
    /\ spc = "made"
    /\ smat.kind = "Dielectric"
    /\ \E k \in Draws :
          sout' = DielectricScatter(smat, sray, srec, k, build)
    /\ spc' = "scattered"
    /\ UNCHANGED <<smat, sray, srec>>
    /\ UNCHANGED exceptScatter

ScatterDiffuseLight ==
    /\ spc = "made"
    /\ smat.kind = "DiffuseLight"
    /\ sout' = DiffuseLightScatter(smat, sray, srec)
    /\ spc' = "scattered"
    /\ UNCHANGED <<smat, sray, srec>>
    /\ UNCHANGED exceptScatter

\* C8: Dielectric.scatter always returns true, and takes the reflection
\* branch whenever refract returns None, so that unwrap() never meets None.
C8_DielectricNeverUnwrapsNone ==
    (spc = "scattered" /\ smat.kind = "Dielectric") =>
        /\ sout.ret
        /\ ~sout.panic
        /\ ~sout.some => sout.how = "reflect"

\* a total internal reflection was scattered
C8_Witness ==
    /\ spc = "scattered"
    /\ smat.kind = "Dielectric"
    /\ ~sout.some
    /\ sout.how = "reflect"

\* C9: the attenuation Lambertian.scatter sets equals
\* albedo.value(rec.u, rec.v, rec.p), and the method returns true.
C9_LambertianAttenuation ==
    (spc = "scattered" /\ smat.kind = "Lambertian") =>
        /\ sout.ret
        /\ sout.attenuation = TextureValue(smat.albedo, srec.uv, srec.uv, srec.p)

\* a checker texture was sampled in an odd cell, at a hit that set u and v
C9_Witness ==
    /\ spc = "scattered"
    /\ smat.kind = "Lambertian"
    /\ smat.albedo.kind = "Checker"
    /\ srec.uv # NoNormal
    /\ SinSign(srec.p[1]) * SinSign(srec.p[2]) * SinSign(srec.p[3]) < 0
    /\ sout.attenuation # 0

\* C10: the fuzz of every Metal is within [0, 1], whatever value was asked
\* for and however the Metal was created.
C10_FuzzClamped ==
    (spc = "scattered" /\ smat.kind = "Metal") =>
        (0 <= smat.fuzz /\ smat.fuzz <= FuzzDen)

(***************************************************************************)
(* Vec3 / F32x4 (simd.rs) lane by lane, and Ray::new on any direction.     *)
(* A vector is its four lanes, each an IEEE value (Fin, PInf, NInf, NaN).  *)
(***************************************************************************)
\* Vec3::new(x, y, z): the fourth lane is 0.0
Vec3New(x, y, z) == <<Fin(x), Fin(y), Fin(z), Fin(0)>>

\* the xor of the sign bit of one lane
LaneNeg(x) ==
    IF x.k = "fin" THEN Fin(-x.v)
    ELSE IF x.k = "pinf" THEN NInf
    ELSE IF x.k = "ninf" THEN PInf
    ELSE NaN

\* Neg for F32x4: _mm_xor_ps with the sign bit, in all four lanes
Neg4(v) == [i \in 1..4 |-> LaneNeg(v[i])]

\* one lane of _mm_cmpeq_ps: ordered and equal (-0.0 equals 0.0)
LaneEq(x, y) == x.k # "nan" /\ y.k # "nan" /\ x = y

\* _mm_movemask_ps(_mm_cmpeq_ps(a, b)): the lanes that compare equal
CmpEqMask(a, b) == { i \in 1..4 : LaneEq(a[i], b[i]) }

\* PartialEq for F32x4: movemask(cmpeq) == 0
F32x4Eq(a, b) == CmpEqMask(a, b) = {}

\* Vec3::length squared: p[0] + p[1] + p[2] + p[3] of the lane products
LengthSquared(d) == d[1] * d[1] + d[2] * d[2] + d[3] * d[3]

\* Vec3::unit: self / self.length(), a lane-wise f32 division (x / 0.0 does
\* not panic: 0.0 / 0.0 is NaN); lanes are numerators over DirDen
Unit(d) ==
    LET len == Sqrt(LengthSquared(d))
    IN  IF len = 0
        THEN <<NaN, NaN, NaN, NaN>>
        ELSE <<Fin((DirDen * d[1]) \div len), Fin((DirDen * d[2]) \div len),
               Fin((DirDen * d[3]) \div len), Fin(0)>>

\* the square of the length of a lane vector over DirDen is 1
IsUnit(v) ==
    /\ \A i \in 1..4 : v[i].k = "fin"
    /\ v[1].v * v[1].v + v[2].v * v[2].v + v[3].v * v[3].v = DirDen * DirDen

\* the directions whose normalisation is exact, and the zero vector
ExactDirection(d) ==
    /\ IsSquare(LengthSquared(d))
    /\ LengthSquared(d) > 0 =>
          \A i \in 1..3 : (DirDen * d[i]) % Sqrt(LengthSquared(d)) = 0

Coords == (-MaxCoord)..MaxCoord

NoVecOut == [op |-> "none", panic |-> FALSE, eq |-> FALSE, direction |-> Vec3New(0, 0, 0)]

VecInit ==
    /\ vpc = "start"
    /\ vin \in { <<x, y, z>> : x \in Coords, y \in Coords, z \in Coords }
    /\ vout = NoVecOut

\* Ray::new(origin, vin, time, max_depth)
RayNewCall ==
    /\ vpc = "start"
    /\ ExactDirection(vin)
    /\ vout' = [NoVecOut EXCEPT !.op = "Ray::new", !.direction = Unit(vin)]
    /\ vpc' = "done"
    /\ UNCHANGED <<vin>>
    /\ UNCHANGED exceptVec

\* the comparison of test_vec3_neg: -Vec3::new(x, y, z) == Vec3::new(-x, -y, -z)
NegCompare ==
    /\ vpc = "start"
    /\ vout' = [NoVecOut EXCEPT !.op = "neg",
                   !.direction = Neg4(Vec3New(vin[1], vin[2], vin[3])),
                   !.eq = F32x4Eq(Neg4(Vec3New(vin[1], vin[2], vin[3])),
                                  Vec3New(-vin[1], -vin[2], -vin[3]))]
    /\ vpc' = "done"
    /\ UNCHANGED <<vin>>
    /\ UNCHANGED exceptVec

\* C11: Ray::new given a zero-length direction panics and returns no Ray;
\* every Ray that Ray::new returns has a unit-length direction.
C11_ZeroDirectionIsFatal ==
    (vpc = "done" /\ vout.op = "Ray::new") =>
        /\ LengthSquared(vin) = 0 => vout.panic
        /\ ~vout.panic => IsUnit(vout.direction)

\* C16: -Vec3::new(x, y, z) == Vec3::new(-x, -y, -z) holds for all x, y, z.
C16_NegatedComparesEqual ==
    (vpc = "done" /\ vout.op = "neg") => vout.eq

(***************************************************************************)
(* Construction: HitableList::bounding_box and BVH::new on any list, the   *)
(* empty one included.                                                     *)
(***************************************************************************)
BuildLists ==
    UNION { { [i \in 1..n |-> [f[i] EXCEPT !.material = i - 1]] :
                f \in { g \in [1..n -> Shapes] :
                           \A i, j \in 1..n : i # j => g[i] # g[j] } } :
            n \in 0..MaxPrims }

NoBuildOut ==
    [op |-> "none", panic |-> FALSE, some |-> FALSE,
     box |-> AABBNew(Zero3, Zero3), node |-> NoBVH]

BuildInit ==
    /\ bpc = "start"
    /\ blist \in BuildLists
    /\ bout = NoBuildOut

\* blist.bounding_box(t0, t1)
BoundingBoxCall ==
    /\ bpc = "start"
    /\ LET b == ListBoundingBox(blist)
       IN  bout' = [NoBuildOut EXCEPT !.op = "bounding_box", !.panic = b.panic,
                                      !.some = b.some, !.box = b.box]
    /\ bpc' = "done"
    /\ UNCHANGED <<blist>>
    /\ UNCHANGED exceptBuild

\* BVH::new(blist, t0, t1, rng)
BVHNewCall ==
    /\ bpc = "start"
    /\ \E axes \in [1..BVHDraws(Len(blist)) -> 0..2] :
          LET b == BVHNew(blist, axes)
          IN  bout' = [NoBuildOut EXCEPT !.op = "BVH::new", !.panic = b.panic,
                                         !.node = b.node]
    /\ bpc' = "done"
    /\ UNCHANGED <<blist>>
    /\ UNCHANGED exceptBuild

\* the primitives at the leaves of a BVH, left to right
RECURSIVE Leaves(_)
Leaves(h) ==
    IF h.kind # "BVH" THEN {h} ELSE Leaves(h.left) \cup Leaves(h.right)

\* C12: BVH::new panics exactly when its list is empty; on a non-empty list
\* it returns a BVH over the primitives of the list.
C12_FailsIffEmpty ==
    (bpc = "done" /\ bout.op = "BVH::new") =>
        /\ bout.panic <=> blist = <<>>
        /\ ~bout.panic =>
              /\ bout.node.kind = "BVH"
              /\ Leaves(bout.node) = { blist[i] : i \in 1..Len(blist) }

\* a list long enough to be split was built into a tree
C12_Witness ==
    /\ bpc = "done"
    /\ bout.op = "BVH::new"
    /\ Len(blist) >= 3
    /\ ~bout.panic
    /\ bout.node.left.kind = "BVH"

\* C22: the comparators BVH::new sorts with are a consistent ordering: for any
\* two primitives a and b of the list, on every axis, compare(a, b) is Less
\* exactly when compare(b, a) is Greater, also when the boxes have the same
\* minimum on the axis and when a is b.
C22_ComparatorsConsistent ==
    (bpc = "done" /\ bout.op = "BVH::new" /\ Len(blist) >= 2) =>
        \A i, j \in 1..Len(blist) : \A axis \in 0..2 :
            (BoxCompare(blist[i], blist[j], axis) = "Less")
                <=> (BoxCompare(blist[j], blist[i], axis) = "Greater")

\* C13: HitableList.bounding_box on an empty list aborts and returns no value.
C13_EmptyListBoxIsFatal ==
    (bpc = "done" /\ bout.op = "bounding_box" /\ blist = <<>>) => bout.panic

(***************************************************************************)
(* random_scene (main.rs): the material library and the list of spheres    *)
(* grow together.  Of each sphere only its material index is kept.         *)
(***************************************************************************)
\* a slip that takes the length itself for the index of the new material
MaterialIndexLen(lib) == UsizeDec(Len(lib) + 1, "debug").v

\* matlib.lib.len() - 1 right after a push
MaterialIndex(lib) == UsizeDec(Len(lib), "debug").v

\* matlib.lib.push(mat); hitables.list.push(Sphere::new(.., matlib.lib.len() - 1))
PushPair(lib, list, mat) ==
    [matlib   |-> Append(lib, mat),
     hitables |-> Append(list, MaterialIndex(Append(lib, mat)))]

\* choose_mat is k / ChooseDen
ChooseDen == 5 * DrawDen

\* the material of a grid cell: < 0.8 Lambertian, < 0.95 Metal, else Dielectric
CellMaterials(k) ==
    IF 5 * k < 4 * ChooseDen
    THEN { Lambertian(ConstTexture(a * b)) : a \in Draws, b \in Draws }
    ELSE IF 20 * k < 19 * ChooseDen
    THEN { MetalLiteral(1, f) : f \in Draws }
    ELSE { Dielectric(3) }

SceneInit ==
    /\ cpc = "ground"
    /\ ccell = 0
    /\ matlib = <<>>
    /\ hitables = <<>>
    /\ clook = [index |-> 0, in_bounds |-> TRUE]

\* the checker Lambertian and the ground sphere
PushGround ==
    /\ cpc = "ground"
    /\ LET q == PushPair(matlib, hitables,
                         Lambertian(CheckerTexture(ConstTexture(0), ConstTexture(1))))
       IN  /\ matlib' = q.matlib
           /\ hitables' = q.hitables
    /\ cpc' = "grid"
    /\ UNCHANGED <<ccell, clook>>
    /\ UNCHANGED exceptScene

\* one pass of the loops over a and b that ends in `continue`
SkipCell ==
    /\ cpc = "grid"
    /\ ccell < MaxCells
    /\ ccell' = ccell + 1
    /\ UNCHANGED <<cpc, matlib, hitables, clook>>
    /\ UNCHANGED exceptScene

\* one pass of the loops over a and b that adds a small sphere
PushCell ==
    /\ cpc = "grid"
    /\ ccell < MaxCells
    /\ \E k \in 0..(ChooseDen - 1) :
       \E mat \in CellMaterials(k) :
          LET q == PushPair(matlib, hitables, mat)
          IN  /\ matlib' = q.matlib
              /\ hitables' = q.hitables
    /\ ccell' = ccell + 1
    /\ UNCHANGED <<cpc, clook>>
    /\ UNCHANGED exceptScene

\* after the loops: the three large spheres (Dielectric, DiffuseLight, Metal)
PushLarge ==
    /\ cpc = "grid"
    /\ ccell = MaxCells
    /\ LET q1 == PushPair(matlib, hitables, Dielectric(3))
           q2 == PushPair(q1.matlib, q1.hitables, DiffuseLight(ConstTexture(4)))
           q3 == PushPair(q2.matlib, q2.hitables, MetalLiteral(1, 0))
       IN  /\ matlib' = q3.matlib
           /\ hitables' = q3.hitables
    /\ cpc' = "render"
    /\ UNCHANGED <<ccell, clook>>
    /\ UNCHANGED exceptScene

\* trace: a hit on the i-th sphere reports its material index, and
\* matlib.lib[rec.material] is looked up
LookUp ==
    /\ cpc = "render"
    /\ \E i \in 1..Len(hitables) :
          clook' = [index |-> hitables[i], in_bounds |-> hitables[i] < Len(matlib)]
    /\ UNCHANGED <<cpc, ccell, matlib, hitables>>
    /\ UNCHANGED exceptScene

\* the library before a step is a prefix of the library after it
IsPrefix(a, b) == Len(a) <= Len(b) /\ SubSeq(b, 1, Len(a)) = a

\* C14: the library only grows by appends, every sphere of the list holds a
\* material index below the library's length, and every lookup of trace is
\* in bounds.
C14_MaterialIndexValid ==
    /\ [][IsPrefix(matlib, matlib')]_vars
    /\ [](\A i \in 1..Len(hitables) : hitables[i] < Len(matlib))
    /\ [](clook.in_bounds)

\* the last sphere pushed was hit during the render
C14_Witness ==
    /\ cpc = "render"
    /\ Len(hitables) >= 4
    /\ clook.index = Len(matlib) - 1

(***************************************************************************)
(* main (main.rs): two renders side by side.  The generator behind RNG     *)
(* (SmallRng of the rand crate) is a function of its state; it is kept as  *)
(* a small congruential generator with the log of the values it gave.      *)
(***************************************************************************)
\* a slip that seeds each run differently (from the clock, from the thread)
RNGSeededPerRun(seed, run) == [state |-> (seed + run) % 64, log |-> <<>>]

\* RNG::default(): SmallRng::from_seed of a fixed seed
RNGDefault(seed, run) == [state |-> seed % 64, log |-> <<>>]

\* RNG::rand as k / den: the value k and the generator after the draw
Rand(g, den) ==
    LET k == (g.state * den) \div 64
    IN  [v |-> k, g |-> [state |-> ((5 * g.state + 3) % 64), log |-> Append(g.log, k)]]

\* random_in_unit_disk: passes until the test of the loop lets one return
RECURSIVE DrawDisk(_)
DrawDisk(g) ==
    LET a == Rand(g, DrawDen)
        b == Rand(a.g, DrawDen)
    IN  IF DiskReturns(DiskCandidate(a.v, b.v))
        THEN [v |-> DiskCandidate(a.v, b.v), g |-> b.g]
        ELSE DrawDisk(b.g)

\* random_in_unit_sphere: passes until the test of the loop lets one return
RECURSIVE DrawSphere(_)
DrawSphere(g) ==
    LET a == Rand(g, DrawDen)
        b == Rand(a.g, DrawDen)
        c == Rand(b.g, DrawDen)
    IN  IF SphereReturns(SphereCandidate(a.v, b.v, c.v))
        THEN [v |-> SphereCandidate(a.v, b.v, c.v), g |-> c.g]
        ELSE DrawSphere(c.g)

\* (center - (4.0, 0.2, 0.0)).length() <= 0.9 for the cell (a, b) and the
\* draws r1, r2 of the center
CellSkipped(a, b, r1, r2) ==
    LET dx == 10 * DrawDen * (a - 4) + 9 * r1
        dz == 10 * DrawDen * b + 9 * r2
    IN  dx * dx + dz * dz <= 81 * DrawDen * DrawDen

\* the cells followed: (4, 0), (4, 1), ..
CellOf(c) == <<4, c - 1>>

\* the loops over a and b of random_scene from cell c on
RECURSIVE SceneCells(_, _, _, _)
SceneCells(g, lib, list, c) ==
    IF c > MaxCells THEN [g |-> g, matlib |-> lib, hitables |-> list]
    ELSE LET ch == Rand(g, ChooseDen)
             r1 == Rand(ch.g, DrawDen)
             r2 == Rand(r1.g, DrawDen)
         IN  IF CellSkipped(CellOf(c)[1], CellOf(c)[2], r1.v, r2.v)
             THEN SceneCells(r2.g, lib, list, c + 1)
             ELSE IF 5 * ch.v < 4 * ChooseDen
             THEN LET x1 == Rand(r2.g, DrawDen)
                      x2 == Rand(x1.g, DrawDen)
                      x3 == Rand(x2.g, DrawDen)
                      x4 == Rand(x3.g, DrawDen)
                      x5 == Rand(x4.g, DrawDen)
                      x6 == Rand(x5.g, DrawDen)
                      q  == PushPair(lib, list, Lambertian(ConstTexture(x1.v * x2.v)))
                  IN  SceneCells(x6.g, q.matlib, q.hitables, c + 1)
             ELSE IF 20 * ch.v < 19 * ChooseDen
             THEN LET x1 == Rand(r2.g, DrawDen)
                      x2 == Rand(x1.g, DrawDen)
                      x3 == Rand(x2.g, DrawDen)
                      x4 == Rand(x3.g, DrawDen)
                      q  == PushPair(lib, list, MetalLiteral(1, x4.v))
                  IN  SceneCells(x4.g, q.matlib, q.hitables, c + 1)
             ELSE LET q == PushPair(lib, list, Dielectric(3))
                  IN  SceneCells(r2.g, q.matlib, q.hitables, c + 1)

\* random_scene
RandomScene(g) ==
    LET q0 == PushPair(<<>>, <<>>,
                       Lambertian(CheckerTexture(ConstTexture(0), ConstTexture(1))))
        sc == SceneCells(g, q0.matlib, q0.hitables, 1)
        q1 == PushPair(sc.matlib, sc.hitables, Dielectric(3))
        q2 == PushPair(q1.matlib, q1.hitables, DiffuseLight(ConstTexture(4)))
        q3 == PushPair(q2.matlib, q2.hitables, MetalLiteral(1, 0))
    IN  [g |-> sc.g, matlib |-> q3.matlib, hitables |-> q3.hitables]

\* the axis draws of BVH::new: (3.0 * rng.rand()) as u8, one per node
RECURSIVE DrawAxes(_, _)
DrawAxes(g, n) ==
    IF n = 0 THEN [axes |-> <<>>, g |-> g]
    ELSE LET a    == Rand(g, DrawDen)
             rest == DrawAxes(a.g, n - 1)
         IN  [axes |-> <<(3 * a.v) \div DrawDen>> \o rest.axes, g |-> rest.g]

\* One sample of a pixel: u and v, Camera::get_ray (lens and time draws)
\* and trace.  The geometry is not followed: the sphere that is hit is taken
\* from the ray's draws, and its material scatters once.
RenderSample(g, lib, list, axes, x) ==
    LET u    == Rand(g, DrawDen)
        v    == Rand(u.g, DrawDen)
        rd   == DrawDisk(v.g)
        t    == Rand(rd.g, DrawDen)
        i    == 1 + ((x + u.v + v.v + rd.v[1] + rd.v[2] + t.v + axes[1]) % Len(list))
        mat  == lib[list[i] + 1]
        base == Emitted(mat, 0, 0, Zero3) + ScatterAttenuation(mat, HitRecordDefault)
    IN  IF mat.kind \in {"Lambertian", "Metal"}
        THEN LET sv == DrawSphere(t.g)
             IN  [color |-> base + Dot(sv.v, sv.v), g |-> sv.g]
        ELSE IF mat.kind = "Dielectric"
        THEN LET k == Rand(t.g, DrawDen)
             IN  [color |-> base + k.v, g |-> k.g]
        ELSE [color |-> base, g |-> t.g]

\* the loop over the samples of pixel x: color += r.trace(..)
RECURSIVE RenderSamples(_, _, _, _, _, _)
RenderSamples(g, lib, list, axes, x, n) ==
    IF n = 0 THEN [color |-> 0, g |-> g]
    ELSE LET one  == RenderSample(g, lib, list, axes, x)
             rest == RenderSamples(one.g, lib, list, axes, x, n - 1)
         IN  [color |-> one.color + rest.color, g |-> rest.g]

RunStart(seed, run) ==
    [pc |-> "scene", g |-> RNGDefault(seed, run), matlib |-> <<>>,
     hitables |-> <<>>, axes |-> <<>>, out |-> <<>>]

Runs == {1, 2}

RenderInit ==
    /\ dparams \in [seed : 0..7, pixels : 1..MaxPixels, samples : 1..2]
    /\ druns = [r \in Runs |-> RunStart(dparams.seed, r)]

\* main: let scene = random_scene(&mut rng, &mut matlib)
RenderScene(r) ==
    /\ druns[r].pc = "scene"
    /\ LET sc == RandomScene(druns[r].g)
       IN  druns' = [druns EXCEPT ![r] =
                        [@ EXCEPT !.pc = "bvh", !.g = sc.g, !.matlib = sc.matlib,
                                  !.hitables = sc.hitables]]
    /\ UNCHANGED dparams
    /\ UNCHANGED exceptRender

\* main: let bvh = BVH::new(scene, 0.0, 0.1, &mut rng)
RenderBVH(r) ==
    /\ druns[r].pc = "bvh"
    /\ LET a == DrawAxes(druns[r].g, BVHDraws(Len(druns[r].hitables)))
       IN  druns' = [druns EXCEPT ![r] =
                        [@ EXCEPT !.pc = "pixels", !.g = a.g, !.axes = a.axes]]
    /\ UNCHANGED dparams
    /\ UNCHANGED exceptRender

\* main: one pixel of the loops over y and x, printed
RenderPixel(r) ==
    /\ druns[r].pc = "pixels"
    /\ LET run == druns[r]
           px  == RenderSamples(run.g, run.matlib, run.hitables, run.axes,
                                Len(run.out), dparams.samples)
           out == Append(run.out, px.color \div dparams.samples)
       IN  druns' = [druns EXCEPT ![r] =
                        [@ EXCEPT !.g = px.g, !.out = out,
                                  !.pc = IF Len(out) = dparams.pixels
                                         THEN "done" ELSE "pixels"]]
    /\ UNCHANGED dparams
    /\ UNCHANGED exceptRender

C17_RecordMatchesRoot ==
    (hpc # "start" /\ scene[1].kind = "Sphere" /\ primRes.hit) =>
        /\ primRes.rec.p = PointAtParam(ray, primRes.rec.t)
        /\ primRes.rec.normal = NormalAt(primRes.rec.p, scene[1].center0, scene[1].radius)
        /\ primRes.rec.uv = primRes.rec.normal

(***************************************************************************)
(* AABB::hit against the geometry it bounds.  AABB::hit and the sphere     *)
(* tests read the lanes of r.direction and never assume its length, so the *)
(* rays here have three non-zero lanes over DirDen (a unit direction gives *)
(* the same outcomes for the window scaled by the length).                 *)
(***************************************************************************)
BoxRays ==
    { RayNew(<<-2, -2, -1>>, <<2, 2, 1>>, 0, 1),
      RayNew(<<2, 2, 1>>, <<-2, -2, -1>>, 0, 1),
      RayNew(<<-2, 2, -1>>, <<2, -2, 1>>, 1, 1),
      RayNew(<<-1, 2, 0>>, <<1, 2, 2>>, 0, 1),
      RayNew(<<2, 6, 1>>, <<-2, -2, -1>>, 0, 1),
      RayNew(<<5, 6, 1>>, <<-2, -2, -1>>, 1, 1) }

BoxWindows ==
    { [t_min |-> 0, t_max |-> 900],
      [t_min |-> 300, t_max |-> 900],
      [t_min |-> 0, t_max |-> 200],
      [t_min |-> 0, t_max |-> 150],
      [t_min |-> 420, t_max |-> 900] }

\* the point p (as PDen * p) is inside the closed box
Inside(box, p) ==
    \A i \in 1..3 : PDen * box.min[i] <= p[i] /\ p[i] <= PDen * box.max[i]

NoBoxRes == [box |-> FALSE, list |-> FALSE, bvh |-> FALSE]

BoxInit ==
    /\ xpc = "start"
    /\ xlist \in { sc \in Scenes : Len(sc) <= 2 }
    /\ xray \in BoxRays
    /\ xwin \in BoxWindows
    /\ ExactInput(xlist, xray)
    /\ xres = NoBoxRes

\* self.bb.hit(r, t_min, t_max) of the BVH node over the list
BoxTest ==
    /\ xpc = "start"
    /\ xres' = [xres EXCEPT !.box = AABBHit(HitableListBoundingBox(xlist), xray,
                                            xwin.t_min, xwin.t_max)]
    /\ xpc' = "box"
    /\ UNCHANGED <<xlist, xray, xwin>>
    /\ UNCHANGED exceptBox

\* the list and the BVH built over it are asked for the same hit
TreeTest ==
    /\ xpc = "box"
    /\ \E axes \in [1..BVHDraws(Len(xlist)) -> 0..2] :
          xres' = [xres EXCEPT
                     !.list = HitableListHit(xlist, xray, xwin.t_min, xwin.t_max,
                                             HitRecordDefault).hit,
                     !.bvh = BVHHit(BVHNew(xlist, axes).node, xray, xwin.t_min,
                                    xwin.t_max, HitRecordDefault).hit]
    /\ xpc' = "tree"
    /\ UNCHANGED <<xlist, xray, xwin>>
    /\ UNCHANGED exceptBox

\* some parameter of the window puts the ray's point inside the box
PassesThrough(box, r, w) ==
    \E t \in w.t_min..w.t_max : Inside(box, PointAtParam(r, t))

\* C18: AABB.hit has no false negatives for rays with non-zero direction
\* components: if a parameter t of [t_min, t_max] puts the ray's point inside
\* the box it returns true; and BVH.hit reports a hit whenever the list does.
C18_NoFalseNegative ==
    /\ xpc \in {"box", "tree"} =>
          (PassesThrough(HitableListBoundingBox(xlist), xray, xwin) => xres.box)
    /\ xpc = "tree" => (xres.list => (xres.box /\ xres.bvh))

\* a ray with negative lanes crosses the box inside the window and hits
\* what the box bounds
C18_Witness ==
    /\ xpc = "tree"
    /\ \A i \in 1..3 : xray.direction[i] < 0
    /\ PassesThrough(HitableListBoundingBox(xlist), xray, xwin)
    /\ xres.list
    /\ xres.bvh

(***************************************************************************)
(* ThreadPool (executor.rs).  main is the thread that owns the pool;       *)
(* threads[w] is worker w: about to lock the receiver ("lock"), holding    *)
(* the lock inside recv() ("recv"), running a task with the lock released  *)
(* ("run"), or ended by a panic ("panicked": the loop has no other way     *)
(* out).  The guard of receiver.lock() is a temporary of the let           *)
(* statement: it is held during recv() and dropped before (task.f)().      *)
(***************************************************************************)
Workers == 1..MaxWorkers

NewThread == [pc |-> "lock", task |-> 0]

\* the Receiver lives in the Arc the worker closures hold: it is dropped when
\* the last worker has ended
ReceiverAlive == \E w \in 1..size : threads[w].pc # "panicked"

\* ThreadPool::new(size)
PoolInit ==
    /\ main = "running"
    /\ size \in 0..MaxWorkers
    /\ threads = [w \in 1..size |-> NewThread]
    /\ sender = TRUE
    /\ receiver = [holder |-> 0, poisoned |-> FALSE]
    /\ channel = <<>>
    /\ tasks = <<>>
    /\ ran = <<>>
    /\ unwinding = FALSE

\* execute(task): self.sender.send(task).unwrap(); the task's body returns or
\* panics when it is run.  send fails when the Receiver is gone, and the
\* unwrap then panics: main unwinds and the pool is dropped.
Execute ==
    /\ main = "running"
    /\ Len(tasks) < MaxTasks
    /\ \E panics \in BOOLEAN :
          IF ReceiverAlive
          THEN /\ tasks' = Append(tasks, [panics |-> panics])
               /\ ran' = Append(ran, 0)
               /\ channel' = Append(channel, Len(tasks) + 1)
               /\ UNCHANGED <<main, unwinding>>
          ELSE /\ main' = "drop"
               /\ unwinding' = TRUE
               /\ UNCHANGED <<tasks, ran, channel>>
    /\ UNCHANGED <<size, threads, sender, receiver>>
    /\ UNCHANGED exceptPool

\* the pool goes out of scope: Drop::drop is entered
DropPool ==
    /\ main = "running"
    /\ main' = "drop"
    /\ UNCHANGED <<size, threads, sender, receiver, channel, tasks, ran, unwinding>>
    /\ UNCHANGED exceptPool

\* self.threads.drain(..).for_each(|t| t.join().unwrap()): join returns when
\* the thread has ended, which a worker does only by a panic, so that join
\* returns Err and the unwrap panics (a panic while unwinding aborts).  With
\* nothing to join drop returns.  The fields, sender among them, are dropped
\* after drop's body, also when it unwinds.
Join ==
    /\ main = "drop"
    /\ IF size = 0
       THEN /\ main' = "dropped"
            /\ sender' = FALSE
            /\ UNCHANGED unwinding
       ELSE /\ threads[1].pc = "panicked"
            /\ IF unwinding
               THEN /\ main' = "abort"
                    /\ UNCHANGED <<sender, unwinding>>
               ELSE /\ main' = "dropped"
                    /\ unwinding' = TRUE
                    /\ sender' = FALSE
    /\ UNCHANGED <<size, threads, receiver, channel, tasks, ran>>
    /\ UNCHANGED exceptPool

\* receiver.lock().unwrap(): blocks while another worker holds the lock;
\* a poisoned lock makes the unwrap panic
Lock(w) ==
    /\ main # "abort"
    /\ w \in 1..size
    /\ threads[w].pc = "lock"
    /\ receiver.holder = 0
    /\ IF receiver.poisoned
       THEN /\ threads' = [threads EXCEPT ![w].pc = "panicked"]
            /\ UNCHANGED receiver
       ELSE /\ threads' = [threads EXCEPT ![w].pc = "recv"]
            /\ receiver' = [receiver EXCEPT !.holder = w]
    /\ UNCHANGED <<main, size, sender, channel, tasks, ran, unwinding>>
    /\ UNCHANGED exceptPool

\* a slip that binds the guard to a variable of the loop body: the lock is
\* still held when the task body runs
RecvHoldsLock(w) ==
    /\ main # "abort"
    /\ w \in 1..size
    /\ threads[w].pc = "recv"
    /\ channel # <<>>
    /\ threads' = [threads EXCEPT ![w] = [pc |-> "run", task |-> Head(channel)]]
    /\ channel' = Tail(channel)
    /\ UNCHANGED <<main, size, sender, receiver, tasks, ran, unwinding>>
    /\ UNCHANGED exceptPool

\* .recv().unwrap() under the lock: takes the oldest task and the statement
\* ends, releasing the lock; blocks while the channel is empty and the sender
\* lives; with the sender gone it returns Err and the unwrap panics with the
\* guard alive, which poisons the lock
Recv(w) ==
    /\ main # "abort"
    /\ w \in 1..size
    /\ threads[w].pc = "recv"
    /\ IF channel # <<>>
       THEN /\ threads' = [threads EXCEPT ![w] = [pc |-> "run", task |-> Head(channel)]]
            /\ channel' = Tail(channel)
            /\ receiver' = [receiver EXCEPT !.holder = 0]
       ELSE /\ ~sender
            /\ threads' = [threads EXCEPT ![w].pc = "panicked"]
            /\ receiver' = [holder |-> 0, poisoned |-> TRUE]
            /\ UNCHANGED channel
    /\ UNCHANGED <<main, size, sender, tasks, ran, unwinding>>
    /\ UNCHANGED exceptPool

\* (task.f)(): the body runs; a panic in it ends the worker
Run(w) ==
    /\ main # "abort"
    /\ w \in 1..size
    /\ threads[w].pc = "run"
    /\ ran' = [ran EXCEPT ![threads[w].task] = @ + 1]
    /\ threads' = [threads EXCEPT ![w] =
                     [pc |-> IF tasks[threads[w].task].panics THEN "panicked" ELSE "lock",
                      task |-> 0]]
    /\ UNCHANGED <<main, size, sender, receiver, channel, tasks, unwinding>>
    /\ UNCHANGED exceptPool

\* C20: dropping a ThreadPool of size >= 1 eventually completes: the joins in
\* Drop return.
C20_DropCompletes ==
    [](size >= 1 /\ main = "drop" => <>(main = "dropped"))

\* where task i is: the places of the channel that hold it and the workers
\* that have taken it and not yet run it
Queued(i) == { k \in 1..Len(channel) : channel[k] = i }

Takers(i) == { w \in 1..size : threads[w].task = i }

\* C21: under every interleaving each task given to execute is taken by
\* exactly one worker and run exactly once (never twice, never lost while a
\* worker is alive), and the receiver lock is released before the task body
\* runs.
C21_EachTaskRunsOnce ==
    /\ [](\A i \in 1..Len(tasks) :
             Cardinality(Queued(i)) + Cardinality(Takers(i)) + ran[i] = 1)
    /\ [](\A w \in 1..size : threads[w].pc = "run" => receiver.holder # w)
    /\ \A i \in 1..MaxTasks :
          [](i <= Len(tasks) =>
                <>((i <= Len(ran) /\ ran[i] = 1) \/ ~ReceiverAlive))

\* C21 witness: two workers run two different tasks at the same time, one
\* taken after the other, with the lock free
C21_Witness ==
    /\ size >= 2
    /\ threads[1].pc = "run"
    /\ threads[2].pc = "run"
    /\ threads[1].task # threads[2].task
    /\ receiver.holder = 0

(***************************************************************************)
(* Specifications: one per scenario; the variables of the other scenarios  *)
(* rest at their idle values.                                              *)
(***************************************************************************)
HitIdle ==
    /\ hpc = "idle"
    /\ scene = <<>>
    /\ ray = RayNew(Zero3, <<0, 0, 5>>, 0, 0)
    /\ window = [t_min |-> 0, t_max |-> 0]
    /\ primRes = NoResult
    /\ boxRes = FALSE
    /\ listRes = NoResult
    /\ bvh = NoBVH
    /\ bvhRes = NoResult

TraceIdle ==
    /\ tpc = "idle"
    /\ build = "debug"
    /\ depth0 = 0
    /\ budget0 = 0
    /\ tdepth = 0
    /\ tray = RayNew(Zero3, <<0, 0, 5>>, 0, 0)
    /\ tstack = <<>>
    /\ tresult = 0
    /\ tlast = NoFrame
    /\ nscatter = 0

RngIdle ==
    /\ rpc = "idle"
    /\ rfn = "none"
    /\ rsample = Zero3
    /\ rtries = 0

ScatterIdle ==
    /\ spc = "idle"
    /\ smat = NoMaterial
    /\ sray = RayNew(Zero3, Zero3, 0, 0)
    /\ srec = HitRecordDefault
    /\ sout = NoOut

VecIdle ==
    /\ vpc = "idle"
    /\ vin = Zero3
    /\ vout = NoVecOut

BuildIdle ==
    /\ bpc = "idle"
    /\ blist = <<>>
    /\ bout = NoBuildOut

SceneIdle ==
    /\ cpc = "idle"
    /\ ccell = 0
    /\ matlib = <<>>
    /\ hitables = <<>>
    /\ clook = [index |-> 0, in_bounds |-> TRUE]

RenderIdle ==
    /\ dparams = [seed |-> 0, pixels |-> 0, samples |-> 0]
    /\ druns = <<>>

BoxIdle ==
    /\ xpc = "idle"
    /\ xlist = <<>>
    /\ xray = RayNew(Zero3, Zero3, 0, 0)
    /\ xwin = [t_min |-> 0, t_max |-> 0]
    /\ xres = NoBoxRes

PoolIdle ==
    /\ main = "idle"
    /\ size = 0
    /\ threads = <<>>
    /\ sender = FALSE
    /\ receiver = [holder |-> 0, poisoned |-> FALSE]
    /\ channel = <<>>
    /\ tasks = <<>>
    /\ ran = <<>>
    /\ unwinding = FALSE

HitNext == HitPrimitive \/ HitBox \/ HitList \/ BuildBVH \/ HitBVH

HitSpecInit ==
    /\ HitInit
    /\ TraceIdle /\ RngIdle /\ ScatterIdle /\ VecIdle
    /\ BuildIdle /\ SceneIdle /\ RenderIdle /\ BoxIdle
    /\ PoolIdle

HitSpec == HitSpecInit /\ [][HitNext]_vars

TraceNext == TraceMiss \/ TraceHit \/ TraceReturn \/ TraceDone

TraceSpecInit ==
    /\ TraceInit
    /\ HitIdle /\ RngIdle /\ ScatterIdle /\ VecIdle
    /\ BuildIdle /\ SceneIdle /\ RenderIdle /\ BoxIdle
    /\ PoolIdle

TraceSpec == TraceSpecInit /\ [][TraceNext]_vars

\* a call that can take a step takes it: the program runs on until it returns
TraceFairSpec == TraceSpec /\ WF_vars(TraceNext)

RngNext == SpherePass \/ DiskPass

RngSpecInit ==
    /\ RngInit
    /\ HitIdle /\ TraceIdle /\ ScatterIdle /\ VecIdle
    /\ BuildIdle /\ SceneIdle /\ RenderIdle /\ BoxIdle
    /\ PoolIdle

RngSpec == RngSpecInit /\ [][RngNext]_vars

ScatterNext ==
    \/ NewLambertian \/ NewMetal \/ LiteralMetal \/ NewDielectric \/ NewDiffuseLight
    \/ ScatterLambertian \/ ScatterMetal \/ ScatterDielectric \/ ScatterDiffuseLight

ScatterSpecInit ==
    /\ ScatterInit
    /\ HitIdle /\ TraceIdle /\ RngIdle /\ VecIdle
    /\ BuildIdle /\ SceneIdle /\ RenderIdle /\ BoxIdle
    /\ PoolIdle

ScatterSpec == ScatterSpecInit /\ [][ScatterNext]_vars

VecNext == RayNewCall \/ NegCompare

VecSpecInit ==
    /\ VecInit
    /\ HitIdle /\ TraceIdle /\ RngIdle /\ ScatterIdle
    /\ BuildIdle /\ SceneIdle /\ RenderIdle /\ BoxIdle
    /\ PoolIdle

VecSpec == VecSpecInit /\ [][VecNext]_vars

BuildNext == BoundingBoxCall \/ BVHNewCall

BuildSpecInit ==
    /\ BuildInit
    /\ HitIdle /\ TraceIdle /\ RngIdle /\ ScatterIdle
    /\ VecIdle /\ SceneIdle /\ RenderIdle /\ BoxIdle
    /\ PoolIdle

BuildSpec == BuildSpecInit /\ [][BuildNext]_vars

SceneNext == PushGround \/ SkipCell \/ PushCell \/ PushLarge \/ LookUp

SceneSpecInit ==
    /\ SceneInit
    /\ HitIdle /\ TraceIdle /\ RngIdle /\ ScatterIdle
    /\ VecIdle /\ BuildIdle /\ RenderIdle /\ BoxIdle
    /\ PoolIdle

SceneSpec == SceneSpecInit /\ [][SceneNext]_vars

RenderNext == \E r \in Runs : RenderScene(r) \/ RenderBVH(r) \/ RenderPixel(r)

RenderSpecInit ==
    /\ RenderInit
    /\ HitIdle /\ TraceIdle /\ RngIdle /\ ScatterIdle
    /\ VecIdle /\ BuildIdle /\ SceneIdle /\ BoxIdle
    /\ PoolIdle

RenderSpec == RenderSpecInit /\ [][RenderNext]_vars

BoxNext == BoxTest \/ TreeTest

BoxSpecInit ==
    /\ BoxInit
    /\ HitIdle /\ TraceIdle /\ RngIdle /\ ScatterIdle
    /\ VecIdle /\ BuildIdle /\ SceneIdle /\ RenderIdle
    /\ PoolIdle

BoxSpec == BoxSpecInit /\ [][BoxNext]_vars

PoolNext ==
    \/ Execute \/ DropPool \/ Join
    \/ \E w \in Workers : Lock(w) \/ Recv(w) \/ Run(w)

PoolSpecInit ==
    /\ PoolInit
    /\ HitIdle /\ TraceIdle /\ RngIdle /\ ScatterIdle
    /\ VecIdle /\ BuildIdle /\ SceneIdle /\ RenderIdle
    /\ BoxIdle

PoolSpec == PoolSpecInit /\ [][PoolNext]_vars

\* every thread that can take a step takes it: a worker that can lock, receive
\* or run does so, and a join that can return returns
PoolFairSpec ==
    /\ PoolSpec
    /\ WF_vars(Join)
    /\ \A w \in Workers : WF_vars(Lock(w)) /\ WF_vars(Recv(w)) /\ WF_vars(Run(w))

====
